---- MODULE Spec2Model ----
(***************************************************************************)
(* A model of the resumable scan engine of unauth-checker (src/engine.py,  *)
(* src/ai_agent.py, src/unauth_checker.py): output naming and versioning,  *)
(* the CSV output file, the completion ledger read back from it, the       *)
(* per-endpoint test cases and the scan loop, over several invocations of  *)
(* the program on one disk.                                                *)
(*                                                                         *)
(* Representation.  A path is [dir, digits]: the file dir/host<digits>.csv *)
(* (dir = "" for a bare file name).  A parameter map (a Python dict) is a  *)
(* sequence of <<name, value>> pairs in insertion order; its JSON text is  *)
(* the sequence of pairs sorted by name, <<>> standing for "{}".  A ledger *)
(* key "METHOD path params" is the triple <<method, path, params>>.        *)
(***************************************************************************)
EXTENDS Naturals, Integers, Sequences, FiniteSets, TLC

\* ------------------------------------------------------------- bounds
\* Invocations of the program in one behaviour.
MaxRuns == 3
\* I/O faults the environment injects in one behaviour (transport errors,
\* failed row writes, failed header creation, failed ledger reads).
MaxFaults == 1

\* ---------------------------------------------------------- constants
None == "None"
\* the absent output argument (output_file=None), among paths
NoPath == [dir |-> None, digits |-> <<>>]
\* no row in hand
NoRow == [endpoint |-> None]

CSV_FIELDS ==
  <<"endpoint", "method", "params_count", "params_values", "status_codes",
    "response", "confidence", "confidence_level", "notes">>

\* The endpoints extract_endpoints returns for the scanned document: GET /items
\* without parameters and GET /users/{id} with the string parameter id.
Catalog ==
  << [path |-> "/items", method |-> "GET", params |-> <<>>],
     [path |-> "/users/{id}", method |-> "GET",
      params |-> << [name |-> "id", type |-> "string", description |-> ""] >>] >>

\* The catalog of a second document, which declares GET /items only.
ShortCatalog == SubSeq(Catalog, 1, 1)

\* the documents scanned
Catalogs == {Catalog, ShortCatalog}

\* What AIAgent.generate_sample_value can return: the text of the model's
\* answer, or the literal "test" when the call fails.
SampleValues == {"test", "7"}

\* The status the target answers with on each path, when the call gets through.
TargetStatus(path) == IF path = "/items" THEN "200" ELSE "404"

\* The base names run_scan starts from: host.csv, derived from the target's
\* hostname when no -o argument is given, and the -o argument out/host.csv.
DerivedBase == [dir |-> "", digits |-> <<>>]
DirBase == [dir |-> "out", digits |-> <<>>]

VARIABLES
  disk,             \* the files: path -> [header, rows]
  runs,             \* invocations started so far
  faults,           \* I/O faults injected so far
  pc,               \* where the current invocation is
  api_key,          \* whether MISTRAL_API_KEY is set for the invocation
  agent,            \* the module global _agent: None or "AIAgent"
  output_arg,       \* run_scan's output_file argument
  output_file,      \* the path run_scan writes to (after versioning)
  completed,        \* the ledger load_completed_endpoints returned
  read_error,       \* whether reading the ledger raised
  completed_count,  \* run_scan's progress counter
  ep_idx,           \* run_scan's position in the catalog (1-based)
  keys,             \* the keys run_scan looked up for the current endpoint
  test_cases,       \* test_endpoint's list of (params, case_name)
  case_idx,         \* test_endpoint's position in test_cases (1-based)
  result,           \* the row built for the request just made
  source,           \* the spec source given to main: None, "url" or "file"
  fetched,          \* whether load_openapi called requests.get for the document
  provider_calls,   \* generate_sample_value calls made for the endpoint last planned
  write_failed,     \* history: a row write failed for the endpoint under test
  endpoints,        \* run_scan's endpoints: the catalog of the document scanned
  progress,         \* the pair update_progress last wrote: <<current, total>>
  rerun             \* history: the invocation follows a completed scan and
                    \* is given the path of that scan's output file

vars ==
  <<disk, runs, faults, pc, api_key, agent, output_arg, output_file, completed,
    read_error, completed_count, ep_idx, keys, test_cases, case_idx, result,
    rerun,
    source,
    fetched,
    provider_calls,
    write_failed,
    endpoints,
    progress>>

\* ------------------------------------------------------ file versioning
PathExists(d, f) == f \in DOMAIN d

IsPrefix(s, t) == Len(s) <= Len(t) /\ SubSeq(t, 1, Len(s)) = s

\* int(version_str)
RECURSIVE DigitsToInt(_)
DigitsToInt(s) ==
  IF s = <<>> THEN 0
  ELSE 10 * DigitsToInt(SubSeq(s, 1, Len(s) - 1)) + s[Len(s)]

\* the decimal digits of n, as the f-string formats next_version
RECURSIVE IntToDigits(_)
IntToDigits(n) ==
  IF n < 10 THEN <<n>> ELSE IntToDigits(n \div 10) \o <<n % 10>>

\* os.listdir(directory): the bare names in the directory of base_filename.
\* A bare name host<digits>.csv is given by its digits.
Listdir(d, dir) == { f.digits : f \in { g \in DOMAIN d : g.dir = dir } }

\* pattern.match(filename) for the pattern built from base_name and ext.
\* base_name keeps the directory part of base_filename, so a bare name from
\* os.listdir can match only when base_filename has no directory part.
\* The result is [matched, group]: group is the (\d+)? capture.
PatternMatch(base, name) ==
  IF base.dir = "" /\ IsPrefix(base.digits, name)
  THEN [matched |-> TRUE,
        group |-> SubSeq(name, Len(base.digits) + 1, Len(name))]
  ELSE [matched |-> FALSE, group |-> <<>>]

\* the loop over os.listdir: the largest numeric suffix, -1 when there is none
MaxVersion(d, base) ==
  LET versions ==
        { DigitsToInt(PatternMatch(base, n).group) :
            n \in { m \in Listdir(d, base.dir) :
                      /\ PatternMatch(base, m).matched
                      /\ PatternMatch(base, m).group # <<>> } }
  IN IF versions = {} THEN -1
     ELSE CHOOSE v \in versions : \A w \in versions : w <= v

get_versioned_filename(d, base_filename) ==
  IF ~PathExists(d, base_filename) THEN base_filename
  ELSE LET next_version == MaxVersion(d, base_filename) + 1
       IN IF next_version = 0
          THEN [base_filename EXCEPT !.digits = @ \o <<1>>]
          ELSE [base_filename EXCEPT !.digits = @ \o IntToDigits(next_version)]

\* ------------------------------------------------------------ CSV file
NewFile == [header |-> CSV_FIELDS, rows |-> <<>>]

\* the file open(filename, "w") leaves when the header is not written after it
EmptyFile == [header |-> <<>>, rows |-> <<>>]

\* write_csv_header_if_needed, when creating the file succeeds
write_csv_header_if_needed(d, filename) ==
  IF PathExists(d, filename) THEN d
  ELSE [f \in DOMAIN d \cup {filename} |->
          IF f = filename THEN NewFile ELSE d[f]]

\* append_csv_row, when the write succeeds
append_csv_row(d, filename, row) ==
  [d EXCEPT ![filename].rows = Append(@, row)]

\* mutant: the key is built as "path METHOD params"
RowKey_PathFirst(row) == <<row.endpoint, row.method, row.params_values>>

\* the key load_completed_endpoints builds from a row read back
RowKey(row) == <<row.method, row.endpoint, row.params_values>>

\* load_completed_endpoints: the keys of the rows read.  rows_read is how many
\* rows the reader yielded: all of them, or those before an exception.  In a
\* file without the header line the reader takes the first row for the field
\* names, so row['method'] raises KeyError on the next row: no key is read.
load_completed_endpoints(d, filename, rows_read) ==
  IF ~PathExists(d, filename) THEN {}
  ELSE IF d[filename].header # CSV_FIELDS THEN {}
  ELSE { RowKey(d[filename].rows[i]) : i \in 1..rows_read }

\* reading the file raises KeyError: it has no header line and two rows or more
ReadRaises(d, filename) ==
  /\ PathExists(d, filename)
  /\ d[filename].header # CSV_FIELDS
  /\ Len(d[filename].rows) > 1

\* --------------------------------------------------- sample generation
HasKey(dict, k) == \E i \in 1..Len(dict) : dict[i][1] = k

DictGet(dict, k) == dict[CHOOSE i \in 1..Len(dict) : dict[i][1] = k][2]

\* dict[k] = v
DictSet(dict, k, v) ==
  IF HasKey(dict, k)
  THEN [i \in 1..Len(dict) |-> IF dict[i][1] = k THEN <<k, v>> ELSE dict[i]]
  ELSE Append(dict, <<k, v>>)

\* one sample: sample[p["name"]] = value, for each parameter in turn
RECURSIVE BuildSample(_, _)
BuildSample(params, values) ==
  IF params = <<>> THEN <<>>
  ELSE DictSet(BuildSample(SubSeq(params, 1, Len(params) - 1), values),
               params[Len(params)].name, values[Len(params)])

\* generate_param_samples: the lists it can return, one per way the provider
\* can answer its calls
generate_param_samples(endpoint) ==
  IF endpoint.params = <<>> THEN { << <<>> >> }
  ELSE { <<BuildSample(endpoint.params, v1), BuildSample(endpoint.params, v2)>> :
           v1 \in [1..Len(endpoint.params) -> SampleValues],
           v2 \in [1..Len(endpoint.params) -> SampleValues] }

\* the generate_sample_value calls one generate_param_samples call makes:
\* none without parameters, else one per parameter for each of the 2 samples
ProviderCalls(endpoint) ==
  IF endpoint.params = <<>> THEN 0 ELSE 2 * Len(endpoint.params)

\* the parameter names of the catalog in lexicographic order
SortedNames == <<"id">>

\* format_params_values: "{}" (here <<>>) for an empty map, else json.dumps
\* with sort_keys=True: the pairs in key order
format_params_values(params) ==
  IF params = <<>> THEN <<>>
  ELSE LET present == SelectSeq(SortedNames, LAMBDA n : HasKey(params, n))
       IN [i \in 1..Len(present) |-> <<present[i], DictGet(params, present[i])>>]

\* ----------------------------------------------------- endpoint testing
\* mutant: the sample cases come before the empty one
BuildTestCases_SamplesFirst(samples) ==
  (IF Len(samples) > 0
   THEN << [params |-> samples[1], case_name |-> "set_1"] >> ELSE <<>>)
  \o (IF Len(samples) > 1
      THEN << [params |-> samples[2], case_name |-> "set_2"] >> ELSE <<>>)
  \o << [params |-> <<>>, case_name |-> "empty"] >>

\* test_endpoint's test_cases: empty, then one case per sample returned
BuildTestCases(samples) ==
  << [params |-> <<>>, case_name |-> "empty"] >>
  \o (IF Len(samples) > 0
      THEN << [params |-> samples[1], case_name |-> "set_1"] >> ELSE <<>>)
  \o (IF Len(samples) > 1
      THEN << [params |-> samples[2], case_name |-> "set_2"] >> ELSE <<>>)

\* ",".join(map(str, sorted(statuses))) if statuses else "N/A"; at most one
\* outcome is observed per test case
StatusCodes(statuses) ==
  IF statuses = {} THEN "N/A" ELSE CHOOSE s \in statuses : TRUE

\* mutant: any observed outcome counts as a success
Confidence_AnyStatus(statuses) == IF statuses # {} THEN 60 ELSE 0

Confidence(statuses) == IF "200" \in statuses THEN 60 ELSE 0

ConfidenceLevel(statuses) ==
  IF "200" \in statuses THEN "Medium" ELSE "Inconclusive"

\* the result dict test_endpoint builds for one test case
BuildResult(endpoint, case, statuses, response_body) ==
  [endpoint |-> endpoint.path,
   method |-> endpoint.method,
   params_count |-> Len(endpoint.params),
   params_values |-> format_params_values(case.params),
   status_codes |-> StatusCodes(statuses),
   response |-> response_body,
   confidence |-> Confidence(statuses),
   confidence_level |-> ConfidenceLevel(statuses),
   notes |-> <<"Test case", case.case_name>>]

\* ------------------------------------------------------------ run_scan
\* empty_key, then set1_key and set2_key when they are not None
LookupKeys(ep, samples) ==
  << <<ep.method, ep.path, <<>>>> >>
  \o (IF ep.params # <<>> /\ Len(samples) > 0
      THEN << <<ep.method, ep.path, format_params_values(samples[1])>> >>
      ELSE <<>>)
  \o (IF ep.params # <<>> /\ Len(samples) > 1
      THEN << <<ep.method, ep.path, format_params_values(samples[2])>> >>
      ELSE <<>>)

\* mutant: set1_key and set2_key are looked up even when they are None, so
\* an endpoint without parameters never counts as completed
all_completed_NoGuards(ks, ledger) ==
  Len(ks) = 3 /\ \A i \in 1..Len(ks) : ks[i] \in ledger

\* mutant: only the empty key is looked up
all_completed_EmptyOnly(ks, ledger) == ks[1] \in ledger

all_completed(ks, ledger) == \A i \in 1..Len(ks) : ks[i] \in ledger

\* the samples run_scan draws for its lookup: none for a parameterless endpoint
ScanSamples(ep) ==
  IF ep.params # <<>> THEN generate_param_samples(ep) ELSE { <<>> }

\* total_test_cases = total * 3
total_test_cases(eps) == Len(eps) * 3

\* update_progress: what the progress line shows, "current / total"
update_progress(current, total) == <<current, total>>

\* get_agent succeeds: the agent exists already or AIAgent() finds the API key
AgentAvailable == agent # None \/ api_key

Stopped == {"idle", "done", "crashed", "aborted"}
Running == {"loop", "test", "sent"}

\* the spec sources a scan can start from: -u URL or -f FILE
Sources == {"url", "file"}

\* the -o arguments tried: none, or a path in a directory (the same path on
\* every invocation, so from the second one on it names an existing file)
OutputArgs == {NoPath, DirBase}

\* the base name run_scan versions: the argument, or the derived name
BaseName(arg) == IF arg = NoPath THEN DerivedBase ELSE arg

Init ==
  /\ disk = << >>
  /\ runs = 0
  /\ faults = 0
  /\ pc = "idle"
  /\ api_key = FALSE
  /\ agent = None
  /\ output_arg = NoPath
  /\ output_file = NoPath
  /\ completed = {}
  /\ read_error = FALSE
  /\ completed_count = 0
  /\ ep_idx = 0
  /\ keys = <<>>
  /\ test_cases = <<>>
  /\ case_idx = 0
  /\ result = NoRow
  /\ rerun = FALSE
  /\ progress = <<>>
  /\ endpoints = <<>>
  /\ write_failed = FALSE
  /\ provider_calls = 0
  /\ fetched = FALSE
  /\ source = None

\* main and run_scan up to the loop: load_openapi succeeds, the output name
\* is resolved and versioned, the header is written if the file is new, and
\* the ledger is read back, all rows or those before a read error.
StartRun ==
  /\ pc \in Stopped
  /\ runs < MaxRuns
  /\ \E src \in Sources :
       /\ source' = src
       /\ fetched' = (src = "url")
  /\ \E cat \in Catalogs : endpoints' = cat
  /\ \E arg \in OutputArgs, key \in BOOLEAN :
       LET base == BaseName(arg)
           file == get_versioned_filename(disk, base)
           d2 == write_csv_header_if_needed(disk, file)
       IN /\ output_arg' = arg
          /\ rerun' = (pc = "done" /\ base = output_file)
          /\ api_key' = key
          /\ output_file' = file
          /\ disk' = d2
          /\ \/ /\ completed' = load_completed_endpoints(d2, file, Len(d2[file].rows))
                /\ read_error' = ReadRaises(d2, file)
                /\ faults' = faults
             \/ /\ faults < MaxFaults
                /\ \E n \in 0..Len(d2[file].rows) :
                     completed' = load_completed_endpoints(d2, file, n)
                /\ read_error' = TRUE
                /\ faults' = faults + 1
          /\ completed_count' = Cardinality(completed')
  /\ runs' = runs + 1
  /\ agent' = None
  /\ ep_idx' = 1
  /\ keys' = <<>>
  /\ test_cases' = <<>>
  /\ case_idx' = 0
  /\ result' = NoRow
  /\ pc' = "loop"
  /\ provider_calls' = 0
  /\ write_failed' = FALSE
  /\ progress' = <<>>

\* write_csv_header_if_needed raises ValueError and run_scan ends with the
\* exception: open() fails and there is no file, or open() has created the
\* file and writing the header fails, which leaves the file empty.
HeaderFail ==
  /\ pc \in Stopped
  /\ runs < MaxRuns
  /\ faults < MaxFaults
  /\ \E src \in Sources :
       /\ source' = src
       /\ fetched' = (src = "url")
  /\ \E cat \in Catalogs : endpoints' = cat
  /\ \E arg \in OutputArgs, key \in BOOLEAN :
       LET base == BaseName(arg)
           file == get_versioned_filename(disk, base)
       IN /\ ~PathExists(disk, file)
          /\ output_arg' = arg
          /\ api_key' = key
          /\ output_file' = file
          /\ \/ disk' = disk
             \/ disk' = [f \in DOMAIN disk \cup {file} |->
                           IF f = file THEN EmptyFile ELSE disk[f]]
  /\ runs' = runs + 1
  /\ faults' = faults + 1
  /\ agent' = None
  /\ completed' = {}
  /\ read_error' = FALSE
  /\ completed_count' = 0
  /\ ep_idx' = 0
  /\ keys' = <<>>
  /\ test_cases' = <<>>
  /\ case_idx' = 0
  /\ result' = NoRow
  /\ pc' = "crashed"
  /\ rerun' = FALSE
  /\ provider_calls' = 0
  /\ write_failed' = FALSE
  /\ progress' = <<>>

\* mutant: the document is requested whatever the arguments are
ConfigError_FetchAlways ==
  /\ pc \in Stopped
  /\ runs < MaxRuns
  /\ runs' = runs + 1
  /\ \E src \in {None} \cup Sources : source' = src
  /\ fetched' = TRUE
  /\ \E key \in BOOLEAN : api_key' = key
  /\ agent' = None
  /\ output_arg' = NoPath
  /\ output_file' = NoPath
  /\ completed' = {}
  /\ read_error' = FALSE
  /\ completed_count' = 0
  /\ ep_idx' = 0
  /\ keys' = <<>>
  /\ test_cases' = <<>>
  /\ case_idx' = 0
  /\ result' = NoRow
  /\ pc' = "aborted"
  /\ UNCHANGED <<disk, faults>>
  /\ rerun' = FALSE
  /\ provider_calls' = 0
  /\ write_failed' = FALSE
  /\ endpoints' = <<>>
  /\ progress' = <<>>

\* main prints its usage message and returns (no source given), or
\* load_openapi raises ValueError (the URL cannot be fetched or is not JSON;
\* the file is missing, is not JSON or gives no base URL): the invocation
\* ends before an output name is resolved.  Only the url source is fetched.
ConfigError ==
  /\ pc \in Stopped
  /\ runs < MaxRuns
  /\ runs' = runs + 1
  /\ \E src \in {None} \cup Sources :
       /\ source' = src
       /\ fetched' = (src = "url")
  /\ \E key \in BOOLEAN : api_key' = key
  /\ agent' = None
  /\ output_arg' = NoPath
  /\ output_file' = NoPath
  /\ completed' = {}
  /\ read_error' = FALSE
  /\ completed_count' = 0
  /\ ep_idx' = 0
  /\ keys' = <<>>
  /\ test_cases' = <<>>
  /\ case_idx' = 0
  /\ result' = NoRow
  /\ pc' = "aborted"
  /\ UNCHANGED <<disk, faults>>
  /\ rerun' = FALSE
  /\ provider_calls' = 0
  /\ write_failed' = FALSE
  /\ endpoints' = <<>>
  /\ progress' = <<>>

\* run_scan's loop body when every looked-up key is in the ledger: the
\* endpoint is skipped and the counter advances by the number of keys.
SkipEndpoint ==
  /\ pc = "loop"
  /\ ep_idx <= Len(endpoints)
  /\ LET ep == endpoints[ep_idx]
     IN /\ ep.params # <<>> => AgentAvailable
        /\ agent' = IF ep.params # <<>> THEN "AIAgent" ELSE agent
        /\ \E samples \in ScanSamples(ep) :
             /\ all_completed(LookupKeys(ep, samples), completed)
             /\ keys' = LookupKeys(ep, samples)
             /\ completed_count' = completed_count + Len(LookupKeys(ep, samples))
        /\ provider_calls' = IF ep.params # <<>> THEN ProviderCalls(ep) ELSE 0
  /\ ep_idx' = ep_idx + 1
  /\ UNCHANGED <<disk, runs, faults, pc, api_key, output_arg, output_file,
                 completed, read_error, test_cases, case_idx, result>>
  /\ UNCHANGED rerun
  /\ UNCHANGED source
  /\ UNCHANGED fetched
  /\ UNCHANGED write_failed
  /\ UNCHANGED endpoints
  /\ progress' = update_progress(completed_count', total_test_cases(endpoints))

\* run_scan's loop body when some looked-up key is missing: test_endpoint is
\* entered, draws its own samples and builds its test cases.
BeginEndpoint ==
  /\ pc = "loop"
  /\ ep_idx <= Len(endpoints)
  /\ LET ep == endpoints[ep_idx]
     IN /\ ep.params # <<>> => AgentAvailable
        /\ agent' = IF ep.params # <<>> THEN "AIAgent" ELSE agent
        /\ \E samples \in ScanSamples(ep) :
             /\ ~all_completed(LookupKeys(ep, samples), completed)
             /\ keys' = LookupKeys(ep, samples)
        /\ \E samples \in generate_param_samples(ep) :
             test_cases' = BuildTestCases(samples)
        /\ provider_calls' = (IF ep.params # <<>> THEN ProviderCalls(ep) ELSE 0)
                               + ProviderCalls(ep)
  /\ case_idx' = 1
  /\ pc' = "test"
  /\ UNCHANGED <<disk, runs, faults, api_key, output_arg, output_file,
                 completed, read_error, completed_count, ep_idx, result>>
  /\ UNCHANGED rerun
  /\ UNCHANGED source
  /\ UNCHANGED fetched
  /\ write_failed' = FALSE
  /\ UNCHANGED endpoints
  /\ UNCHANGED progress

\* get_agent raises RuntimeError (no API key) when run_scan asks for the
\* samples of an endpoint with parameters: run_scan ends with the exception.
AgentCrash ==
  /\ pc = "loop"
  /\ ep_idx <= Len(endpoints)
  /\ endpoints[ep_idx].params # <<>>
  /\ ~AgentAvailable
  /\ pc' = "crashed"
  /\ UNCHANGED <<disk, runs, faults, api_key, agent, output_arg, output_file,
                 completed, read_error, completed_count, ep_idx, keys,
                 test_cases, case_idx, result>>
  /\ UNCHANGED rerun
  /\ UNCHANGED source
  /\ UNCHANGED fetched
  /\ UNCHANGED provider_calls
  /\ UNCHANGED write_failed
  /\ UNCHANGED endpoints
  /\ UNCHANGED progress

\* one iteration of test_endpoint's loop up to the result dict: the request
\* returns the target's status
RequestOK ==
  /\ pc = "test"
  /\ case_idx <= Len(test_cases)
  /\ LET ep == endpoints[ep_idx]
     IN result' = BuildResult(ep, test_cases[case_idx],
                              {TargetStatus(ep.path)}, "body")
  /\ pc' = "sent"
  /\ UNCHANGED <<disk, runs, faults, api_key, agent, output_arg, output_file,
                 completed, read_error, completed_count, ep_idx, keys,
                 test_cases, case_idx>>
  /\ UNCHANGED rerun
  /\ UNCHANGED source
  /\ UNCHANGED fetched
  /\ UNCHANGED provider_calls
  /\ UNCHANGED write_failed
  /\ UNCHANGED endpoints
  /\ UNCHANGED progress

\* the request raises requests.RequestException
RequestError ==
  /\ pc = "test"
  /\ case_idx <= Len(test_cases)
  /\ faults < MaxFaults
  /\ faults' = faults + 1
  /\ result' = BuildResult(endpoints[ep_idx], test_cases[case_idx],
                           {"ERROR"}, "Request Error")
  /\ pc' = "sent"
  /\ UNCHANGED <<disk, runs, api_key, agent, output_arg, output_file,
                 completed, read_error, completed_count, ep_idx, keys,
                 test_cases, case_idx>>
  /\ UNCHANGED rerun
  /\ UNCHANGED source
  /\ UNCHANGED fetched
  /\ UNCHANGED provider_calls
  /\ UNCHANGED write_failed
  /\ UNCHANGED endpoints
  /\ UNCHANGED progress

\* mutant: the counter advances by the number of test cases executed
EndEndpoint_CountCases ==
  /\ pc = "test"
  /\ case_idx > Len(test_cases)
  /\ completed_count' = completed_count + Len(test_cases)
  /\ progress' = update_progress(completed_count', total_test_cases(endpoints))
  /\ ep_idx' = ep_idx + 1
  /\ pc' = "loop"
  /\ write_failed' = FALSE
  /\ UNCHANGED <<disk, runs, faults, api_key, agent, output_arg, output_file,
                 completed, read_error, keys, test_cases, case_idx, result,
                 rerun, source, fetched, provider_calls, endpoints>>

\* mutant: the row of a failed request is not written
AppendRow_DropErrorRow ==
  /\ pc = "sent"
  /\ disk' = IF result.status_codes = "ERROR" THEN disk
             ELSE append_csv_row(disk, output_file, result)
  /\ result' = NoRow
  /\ case_idx' = case_idx + 1
  /\ pc' = "test"
  /\ UNCHANGED <<runs, faults, api_key, agent, output_arg, output_file,
                 completed, read_error, completed_count, ep_idx, keys,
                 test_cases, rerun>>
  /\ UNCHANGED source
  /\ UNCHANGED fetched
  /\ UNCHANGED provider_calls
  /\ UNCHANGED write_failed
  /\ UNCHANGED endpoints
  /\ UNCHANGED progress

\* append_csv_row writes the row
AppendRow ==
  /\ pc = "sent"
  /\ disk' = append_csv_row(disk, output_file, result)
  /\ result' = NoRow
  /\ case_idx' = case_idx + 1
  /\ pc' = "test"
  /\ UNCHANGED <<runs, faults, api_key, agent, output_arg, output_file,
                 completed, read_error, completed_count, ep_idx, keys,
                 test_cases>>
  /\ UNCHANGED rerun
  /\ UNCHANGED source
  /\ UNCHANGED fetched
  /\ UNCHANGED provider_calls
  /\ UNCHANGED write_failed
  /\ UNCHANGED endpoints
  /\ UNCHANGED progress

\* mutant: a failed write ends the scan with the exception
AppendFail_Abort ==
  /\ pc = "sent"
  /\ faults < MaxFaults
  /\ faults' = faults + 1
  /\ pc' = "crashed"
  /\ UNCHANGED <<disk, runs, api_key, agent, output_arg, output_file,
                 completed, read_error, completed_count, ep_idx, keys,
                 test_cases, case_idx, result, rerun>>
  /\ UNCHANGED source
  /\ UNCHANGED fetched
  /\ UNCHANGED provider_calls
  /\ write_failed' = TRUE
  /\ UNCHANGED endpoints
  /\ UNCHANGED progress

\* append_csv_row catches a failed write: the row is dropped
AppendFail ==
  /\ pc = "sent"
  /\ faults < MaxFaults
  /\ faults' = faults + 1
  /\ result' = NoRow
  /\ case_idx' = case_idx + 1
  /\ pc' = "test"
  /\ UNCHANGED <<disk, runs, api_key, agent, output_arg, output_file,
                 completed, read_error, completed_count, ep_idx, keys,
                 test_cases>>
  /\ UNCHANGED rerun
  /\ UNCHANGED source
  /\ UNCHANGED fetched
  /\ UNCHANGED provider_calls
  /\ write_failed' = TRUE
  /\ UNCHANGED endpoints
  /\ UNCHANGED progress

\* test_endpoint returns: run_scan adds 3 to the counter and goes on
EndEndpoint ==
  /\ pc = "test"
  /\ case_idx > Len(test_cases)
  /\ completed_count' = completed_count + 3
  /\ ep_idx' = ep_idx + 1
  /\ pc' = "loop"
  /\ UNCHANGED <<disk, runs, faults, api_key, agent, output_arg, output_file,
                 completed, read_error, keys, test_cases, case_idx, result>>
  /\ UNCHANGED rerun
  /\ UNCHANGED source
  /\ UNCHANGED fetched
  /\ UNCHANGED provider_calls
  /\ write_failed' = FALSE
  /\ UNCHANGED endpoints
  /\ progress' = update_progress(completed_count', total_test_cases(endpoints))

\* the loop is over: run_scan returns
Finish ==
  /\ pc = "loop"
  /\ ep_idx > Len(endpoints)
  /\ pc' = "done"
  /\ UNCHANGED <<disk, runs, faults, api_key, agent, output_arg, output_file,
                 completed, read_error, completed_count, ep_idx, keys,
                 test_cases, case_idx, result>>
  /\ UNCHANGED rerun
  /\ UNCHANGED source
  /\ UNCHANGED fetched
  /\ UNCHANGED provider_calls
  /\ UNCHANGED write_failed
  /\ UNCHANGED endpoints
  /\ UNCHANGED progress

\* the process is terminated: only the disk survives
Kill ==
  /\ pc \in Running
  /\ pc' = "idle"
  /\ api_key' = FALSE
  /\ agent' = None
  /\ output_arg' = NoPath
  /\ output_file' = NoPath
  /\ completed' = {}
  /\ read_error' = FALSE
  /\ completed_count' = 0
  /\ ep_idx' = 0
  /\ keys' = <<>>
  /\ test_cases' = <<>>
  /\ case_idx' = 0
  /\ result' = NoRow
  /\ UNCHANGED <<disk, runs, faults>>
  /\ rerun' = FALSE
  /\ source' = None
  /\ fetched' = FALSE
  /\ provider_calls' = 0
  /\ write_failed' = FALSE
  /\ endpoints' = <<>>
  /\ progress' = <<>>

Next ==
  \/ StartRun
  \/ HeaderFail
  \/ ConfigError
  \/ SkipEndpoint
  \/ BeginEndpoint
  \/ AgentCrash
  \/ RequestOK
  \/ RequestError
  \/ AppendRow
  \/ AppendFail
  \/ EndEndpoint
  \/ Finish
  \/ Kill

Spec == Init /\ [][Next]_vars

TypeOK == pc \in Stopped \cup Running

\* ------------------------------------------------------------- claims
\* the rows of every file, and the row in hand
AllRows ==
  UNION { { disk[f].rows[i] : i \in 1..Len(disk[f].rows) } : f \in DOMAIN disk }
  \cup
  (IF pc = "sent" THEN {result} ELSE {})

InTest == pc \in {"test", "sent"}

\* C1: the test cases of an endpoint are exactly 3 when it has a parameter
\* and exactly 1, the empty case with the map "{}", when it has none.
C1_TestCaseCount ==
  InTest =>
    IF endpoints[ep_idx].params # <<>>
    THEN Len(test_cases) = 3
    ELSE /\ Len(test_cases) = 1
         /\ test_cases[1].case_name = "empty"
         /\ format_params_values(test_cases[1].params) = <<>>

\* C2: no output file ever holds two rows with the same identity
\* (method, path, serialized parameter map).
C2_NoDuplicateIdentity ==
  \A f \in DOMAIN disk :
    \A i, j \in 1..Len(disk[f].rows) :
      i # j => RowKey(disk[f].rows[i]) # RowKey(disk[f].rows[j])

\* C3 as stated: no request is issued for a test case whose identity is in
\* the ledger built at startup.
C3_NoRequestForLedgerIdentity ==
  pc = "sent" => RowKey(result) \notin completed

\* C3 as amended: requests are issued only for the test cases of an endpoint
\* that has at least one looked-up identity absent from the ledger; the keys
\* looked up are those of the endpoint being tested.
C3_RequestsOnlyForUncoveredEndpoint ==
  InTest =>
    /\ \E i \in 1..Len(keys) : keys[i] \notin completed
    /\ \A i \in 1..Len(keys) :
         /\ keys[i][1] = endpoints[ep_idx].method
         /\ keys[i][2] = endpoints[ep_idx].path

\* C3 witness: a run resumed on a ledger that covers /items has skipped it and
\* has issued the empty request of /users/{id}, whose identity is in the
\* ledger as well.
C3_Witness ==
  /\ pc = "sent"
  /\ ep_idx = 2
  /\ <<"GET", "/items", <<>>>> \in completed
  /\ RowKey(result) \in completed
  /\ Len(disk[output_file].rows) <= 3

\* C4: a scan run again on the output path of a completed scan, with no I/O
\* fault, executes no test case.
C4_RerunExecutesNothing ==
  (rerun /\ faults = 0) => ~InTest

\* C5: a run given the exact path of an existing output file resumes it: it
\* writes to that very file and its ledger holds the identities of its rows.
C5_ExactPathResumes ==
  [][(/\ pc \in Stopped
      /\ pc' = "loop"
      /\ output_arg' # NoPath
      /\ PathExists(disk, output_arg')
      /\ ~read_error')
     => /\ output_file' = output_arg'
        /\ completed' = { RowKey(disk[output_arg'].rows[i]) :
                            i \in 1..Len(disk[output_arg'].rows) }]_vars

\* the numbered siblings of a base path: the files base<N>ext of its directory
Siblings(d, base) ==
  { f \in DOMAIN d : /\ f.dir = base.dir
                     /\ IsPrefix(base.digits, f.digits)
                     /\ f.digits # base.digits }

SiblingNumber(base, f) ==
  DigitsToInt(SubSeq(f.digits, Len(base.digits) + 1, Len(f.digits)))

MaxSiblingNumber(d, base) ==
  LET numbers == { SiblingNumber(base, f) : f \in Siblings(d, base) }
  IN CHOOSE v \in numbers : \A w \in numbers : w <= v

\* C6: the versioned name is the base path when that does not exist;
\* otherwise it is base<N>ext, N being 1 without numbered siblings and one
\* more than their largest number with them, and it names no existing file.
C6_VersionedName ==
  [][(pc \in Stopped /\ pc' \in {"loop", "crashed"})
     => LET base == BaseName(output_arg')
            sibs == Siblings(disk, base)
            n == IF sibs = {} THEN 1 ELSE 1 + MaxSiblingNumber(disk, base)
        IN IF ~PathExists(disk, base)
           THEN output_file' = base
           ELSE /\ output_file' =
                     [base EXCEPT !.digits = @ \o IntToDigits(n)]
                /\ ~PathExists(disk, output_file')]_vars

\* C7: a row has confidence 60 and label "Medium" if and only if its observed
\* status is 200; every other row, the ERROR one included, has confidence 0
\* and label "Inconclusive".
C7_ConfidenceRule ==
  \A r \in AllRows :
    IF r.status_codes = "200"
    THEN r.confidence = 60 /\ r.confidence_level = "Medium"
    ELSE r.confidence = 0 /\ r.confidence_level = "Inconclusive"

\* C7 witness: one file holds a row with status 200, one with 404 and one
\* with ERROR.
C7_Witness ==
  \E f \in DOMAIN disk :
    \A s \in {"200", "404", "ERROR"} :
      \E i \in 1..Len(disk[f].rows) : disk[f].rows[i].status_codes = s

\* C8: a fresh scan of the two-endpoint catalog, the target answering 200 on
\* /items and 404 on /users/{id} and no I/O fault occurring, leaves exactly 4
\* rows: one of /items with confidence 60, three of /users/{id} with 0.
C8_EndToEnd ==
  (pc = "done" /\ runs = 1 /\ faults = 0 /\ endpoints = Catalog) =>
    LET rows == disk[output_file].rows
        of(path) == { i \in 1..Len(rows) : rows[i].endpoint = path }
    IN /\ Len(rows) = 4
       /\ Cardinality(of("/items")) = 1
       /\ Cardinality(of("/users/{id}")) = 3
       /\ \A i \in of("/items") : rows[i].confidence = 60
       /\ \A i \in of("/users/{id}") : rows[i].confidence = 0

\* C9: when reading the output file raises, at any row, the ledger is empty.
C9_ReadErrorGivesEmptyLedger ==
  (pc \in Running /\ read_error) => completed = {}

\* the note of a row describes a failed request
NoteDescribesError(r) == r.notes[1] = "Request Error"

\* C10 as stated: the row of a failed request carries the ERROR sentinel and a
\* note describing the failure.
C10_ErrorRowHasDescriptiveNote ==
  \A r \in AllRows : r.status_codes = "ERROR" => NoteDescribesError(r)

\* C10 as amended: a failed request yields the row of its test case with the
\* ERROR sentinel, the error text in the response column and the case tag as
\* note; unless the process is killed or the write fails, that row is appended
\* and the loop goes on with the next test case of the same endpoint, and
\* after the last one with the next endpoint.
C10_TransportErrorRecovered ==
  [][/\ (pc = "test" /\ pc' = "sent" /\ faults' # faults)
        => /\ result'.status_codes = "ERROR"
           /\ result'.response = "Request Error"
           /\ result'.notes = <<"Test case", test_cases[case_idx].case_name>>
           /\ RowKey(result') =
                <<endpoints[ep_idx].method, endpoints[ep_idx].path,
                  format_params_values(test_cases[case_idx].params)>>
     /\ (pc = "sent" /\ result.status_codes = "ERROR"
           /\ pc' # "idle" /\ faults' = faults)
        => /\ disk' = [disk EXCEPT ![output_file].rows = Append(@, result)]
           /\ pc' = "test"
           /\ case_idx' = case_idx + 1
           /\ ep_idx' = ep_idx
           /\ test_cases' = test_cases
     /\ (pc = "test" /\ case_idx > Len(test_cases) /\ pc' # "idle")
        => /\ pc' = "loop"
           /\ ep_idx' = ep_idx + 1
           /\ disk' = disk]_vars

\* C10 witness: after a failed request on /items the ERROR row is in the file
\* and the scan has gone on to the requests of /users/{id}.
C10_Witness ==
  /\ pc = "sent"
  /\ ep_idx = 2
  /\ \E i \in 1..Len(disk[output_file].rows) :
       /\ disk[output_file].rows[i].status_codes = "ERROR"
       /\ disk[output_file].rows[i].endpoint = "/items"

\* C11: a failed write of a row does not abort the scan: the row is lost, the
\* rows already in the file are unchanged, and the loop goes on with the next
\* test case of the same endpoint.
C11_WriteFailureDoesNotAbort ==
  [][(pc = "sent" /\ faults' # faults)
     => /\ pc' = "test"
        /\ case_idx' = case_idx + 1
        /\ result' = NoRow
        /\ disk' = disk
        /\ ep_idx' = ep_idx
        /\ test_cases' = test_cases
        /\ output_file' = output_file]_vars

\* C11 witness: the second request of /items has been made while the file
\* holds no row: the row of the first test case was lost and the loop went on.
C11_Witness ==
  /\ pc = "sent"
  /\ ep_idx = 1
  /\ case_idx = 2
  /\ disk[output_file].rows = <<>>

\* C12: the planner is total: for every endpoint it returns the test cases,
\* whether the sample provider is configured, reachable or failing; the
\* step of run_scan that plans an endpoint never ends with an exception.
C12_PlannerTotal ==
  [][(pc = "loop" /\ ep_idx <= Len(endpoints)) => pc' # "crashed"]_vars

\* C13: a configuration error aborts the invocation before any probing: the
\* step that ends in the abort leaves every file as it was and no request has
\* been built; without any source not even the document is requested and no
\* sample provider is created; the aborted invocation takes no further step.
C13_ConfigErrorAbortsBeforeProbing ==
  [][/\ (runs' # runs /\ pc' = "aborted")
        => /\ disk' = disk
           /\ test_cases' = <<>>
           /\ result' = NoRow
           /\ agent' = None
           /\ source' = None => ~fetched'
     /\ pc = "aborted" => runs' # runs]_vars

\* C13 witness: after a scan that wrote rows, an invocation without any
\* source has ended with the usage message.
C13_Witness ==
  /\ pc = "aborted"
  /\ source = None
  /\ ~fetched
  /\ \E f \in DOMAIN disk : disk[f].rows # <<>>

\* C14: the output file is append-only with a single header: the file a scan
\* writes to is one header row followed by result rows, the header of a file
\* never changes after its creation, a file is created without rows, and the
\* rows of a file in one state are a prefix of its rows in every later state.
C14_AppendOnlySingleHeader ==
  [][/\ pc' \in Running => disk'[output_file'].header = CSV_FIELDS
     /\ \A f \in DOMAIN disk :
          /\ f \in DOMAIN disk'
          /\ disk'[f].header = disk[f].header
          /\ IsPrefix(disk[f].rows, disk'[f].rows)
     /\ \A f \in DOMAIN disk' \ DOMAIN disk : disk'[f].rows = <<>>]_vars

\* the identity of a test case of an endpoint
CaseKey(ep, case) == <<ep.method, ep.path, format_params_values(case.params)>>

\* C15: an endpoint is skipped, without request and without row, if and only
\* if every identity looked up for it (the empty one and, with parameters,
\* the two sample ones) is in the ledger; when one is missing, every test
\* case of the endpoint is executed in turn, whether or not its identity is
\* in the ledger.
C15_SkipIffAllInLedger ==
  [][/\ (pc = "loop" /\ pc' \in {"loop", "test"})
        => /\ Len(keys') = IF endpoints[ep_idx].params # <<>> THEN 3 ELSE 1
           /\ \A i \in 1..Len(keys') :
                /\ keys'[i][1] = endpoints[ep_idx].method
                /\ keys'[i][2] = endpoints[ep_idx].path
           /\ keys'[1][3] = <<>>
     /\ (pc = "loop" /\ pc' = "loop")
        => /\ \A i \in 1..Len(keys') : keys'[i] \in completed
           /\ ep_idx' = ep_idx + 1
           /\ disk' = disk
           /\ result' = NoRow
     /\ (pc = "loop" /\ pc' = "test")
        => /\ \E i \in 1..Len(keys') : keys'[i] \notin completed
           /\ test_cases' # <<>>
           /\ case_idx' = 1
     /\ (pc = "test" /\ case_idx <= Len(test_cases) /\ pc' \in Running)
        => /\ pc' = "sent"
           /\ RowKey(result') = CaseKey(endpoints[ep_idx], test_cases[case_idx])
     /\ (pc = "sent" /\ pc' \in Running)
        => /\ pc' = "test"
           /\ case_idx' = case_idx + 1
           /\ test_cases' = test_cases
     /\ (pc = "test" /\ pc' = "loop") => case_idx > Len(test_cases)]_vars

\* C15 witness: a resumed scan whose ledger holds the empty identities of both
\* endpoints but not every sample identity of /users/{id} has skipped /items
\* and has executed the three test cases of /users/{id}, the empty one too.
C15_Witness ==
  /\ pc = "loop"
  /\ ep_idx = 3
  /\ <<"GET", "/items", <<>>>> \in completed
  /\ keys[1] \in completed
  /\ \E i \in 1..Len(keys) : keys[i] \notin completed
  /\ LET rows == disk[output_file].rows
     IN /\ Len(rows) >= 3
        /\ \A j \in 1..3 :
             /\ rows[Len(rows) - 3 + j].endpoint = "/users/{id}"
             /\ rows[Len(rows) - 3 + j].notes[2] = <<"empty", "set_1", "set_2">>[j]

\* C16: when an endpoint is executed, the identities of the rows appended for
\* it are the identities that were looked up in the ledger for it (no write
\* having failed).
C16_ExecutedAreLookedUp ==
  (pc = "test" /\ case_idx > Len(test_cases) /\ faults = 0) =>
    LET rows == disk[output_file].rows
        n == Len(test_cases)
    IN { RowKey(rows[i]) : i \in (Len(rows) - n + 1)..Len(rows) }
         = { keys[i] : i \in 1..Len(keys) }

\* C17: for an endpoint with k >= 1 parameters the sample provider is called
\* exactly 2*k times in the run, whether the endpoint is skipped or executed;
\* for an endpoint without parameters it is never called.
C17_ProviderCallsTwicePerParameter ==
  [][(pc = "loop" /\ pc' \in {"loop", "test"})
     => provider_calls' = 2 * Len(endpoints[ep_idx].params)]_vars

\* the case tags in execution order
TagOrder == <<"empty", "set_1", "set_2">>

\* C18: execution is sequential and ordered: a scan starts at the first
\* endpoint of the catalog and leaves an endpoint only for the next one, when
\* it is skipped or all its test cases are done; the test cases are in tag
\* order and taken one after the other; when a request is made the rows of
\* all earlier test cases of the endpoint are the last rows of the file, in
\* order (no write having failed), and a kill leaves the file as it is, so
\* that only the row in hand can be missing.
C18_SequentialOrdered ==
  [][/\ (pc \notin Running /\ pc' \in Running) => ep_idx' = 1 /\ pc' = "loop"
     /\ (pc \in Running /\ pc' \in Running)
        => /\ ep_idx' \in {ep_idx, ep_idx + 1}
           /\ ep_idx' = ep_idx + 1
                => \/ pc = "loop"
                   \/ pc = "test" /\ case_idx > Len(test_cases)
           /\ InTest /\ InTest'
                => /\ case_idx' \in {case_idx, case_idx + 1}
                   /\ case_idx' = case_idx + 1 <=> pc = "sent"
     /\ InTest'
        => /\ Len(test_cases') <= Len(TagOrder)
           /\ \A i \in 1..Len(test_cases') :
                test_cases'[i].case_name = TagOrder[i]
           /\ pc' = "sent"
                => /\ RowKey(result') =
                        CaseKey(endpoints[ep_idx'], test_cases'[case_idx'])
                   /\ result'.notes[2] = TagOrder[case_idx']
           /\ ~write_failed'
                => LET rows == disk'[output_file'].rows
                       written == case_idx' - 1
                   IN /\ Len(rows) >= written
                      /\ \A j \in 1..written :
                           LET row == rows[Len(rows) - written + j]
                           IN /\ RowKey(row) =
                                   CaseKey(endpoints[ep_idx'], test_cases'[j])
                              /\ row.notes[2] = TagOrder[j]
     /\ (pc \in Running /\ pc' \notin Running) => disk' = disk]_vars

\* C18 witness: a first scan was killed while the second request of
\* /users/{id} was in flight: the file holds, in order, the rows of the test
\* cases completed before it.
C18_Witness ==
  /\ pc = "idle"
  /\ runs = 1
  /\ \E f \in DOMAIN disk :
       LET rows == disk[f].rows
       IN /\ Len(rows) = 3
          /\ rows[1].endpoint = "/items" /\ rows[1].notes[2] = "empty"
          /\ rows[2].endpoint = "/items" /\ rows[2].notes[2] = "set_1"
          /\ rows[3].endpoint = "/users/{id}" /\ rows[3].notes[2] = "empty"

\* an endpoint is left for the next one: skipped, or executed to its end
EndpointLeft == pc \in {"loop", "test"} /\ pc' = "loop" /\ ep_idx' = ep_idx + 1

\* C19 as stated: the reported total is 3 x endpointCount, and the counter
\* advances for each endpoint by 3 when it has parameters and by 1 when it
\* has none, whether it is skipped or executed.
C19_ProgressAccounting ==
  [][EndpointLeft
     => /\ progress' = <<completed_count', 3 * Len(endpoints)>>
        /\ completed_count' = completed_count +
             (IF endpoints[ep_idx].params # <<>> THEN 3 ELSE 1)]_vars

\* C19 as amended: the reported total is 3 x endpointCount; a skipped
\* endpoint advances the counter by 3 when it has parameters and by 1 when it
\* has none; an executed endpoint advances it by 3 whatever its parameters.
C19_ProgressAsCounted ==
  [][EndpointLeft
     => /\ progress' = <<completed_count', 3 * Len(endpoints)>>
        /\ completed_count' = completed_count +
             (IF pc = "test" \/ endpoints[ep_idx].params # <<>> THEN 3 ELSE 1)]_vars

\* C19 witness: a scan resumed on a ledger of 2 identities has skipped /items
\* (counter 2 + 1) and has executed /users/{id} (counter 3 + 3): 6 of 6.
C19_Witness ==
  /\ pc = "done"
  /\ endpoints = Catalog
  /\ Cardinality(completed) = 2
  /\ <<"GET", "/items", <<>>>> \in completed
  /\ \E i \in 1..Len(keys) : keys[i] \notin completed
  /\ completed_count = 6
  /\ progress = <<6, 6>>

\* the identities producible from a catalog: for each endpoint the empty one
\* and one for every assignment of sample values to its parameters
Universe(eps) ==
  UNION { { <<eps[i].method, eps[i].path, <<>>>> }
          \cup { <<eps[i].method, eps[i].path,
                   format_params_values(BuildSample(eps[i].params, v))>> :
                   v \in [1..Len(eps[i].params) -> SampleValues] } :
          i \in 1..Len(eps) }

\* the identities of the rows of a file
FileKeys(d, f) ==
  { <<d[f].rows[i].method, d[f].rows[i].endpoint, d[f].rows[i].params_values>> :
      i \in 1..Len(d[f].rows) }

\* C20 as stated: the ledger built at startup is a subset of the identities
\* producible from the current catalog, and it is never modified afterwards.
C20_LedgerWithinUniverse ==
  [][/\ pc' \in Running => completed' \subseteq Universe(endpoints')
     /\ (pc \in Running /\ pc' \in Running) => completed' = completed]_vars

\* C20 as amended: the ledger built at startup is a subset of the identities
\* of the rows of the output file, which are producible from the catalogs of
\* the scans that wrote them, not always from the current one; it is never
\* modified afterwards.
C20_LedgerFromFileRows ==
  [][/\ pc' \in Running
        => /\ completed' \subseteq FileKeys(disk', output_file')
           /\ completed' \subseteq UNION { Universe(c) : c \in Catalogs }
     /\ (pc \in Running /\ pc' \in Running) => completed' = completed]_vars

\* C20 witness: a scan of the document that declares GET /items only has
\* resumed a file written by a scan of the other document and has run to its
\* end: its ledger, unchanged, holds an identity of /users/{id}.
C20_Witness ==
  /\ pc = "done"
  /\ endpoints = ShortCatalog
  /\ progress # <<>>
  /\ \E k \in completed : k[2] = "/users/{id}"
  /\ completed \subseteq FileKeys(disk, output_file)

\* C21: an endpoint with parameters gets exactly two sample sets, distinct
\* from each other, so that its set_1 and set_2 test cases and the two sample
\* keys looked up for it have different identities; an endpoint without
\* parameters gets no sample set, hence the empty test case only.
C21_TwoDistinctSampleSets ==
  InTest =>
    IF endpoints[ep_idx].params # <<>>
    THEN /\ Len(test_cases) = 3
         /\ test_cases[2].params # test_cases[3].params
         /\ CaseKey(endpoints[ep_idx], test_cases[2])
              # CaseKey(endpoints[ep_idx], test_cases[3])
         /\ Len(keys) = 3
         /\ keys[2] # keys[3]
    ELSE /\ Len(test_cases) = 1
         /\ Len(keys) = 1

\* C22: only configuration failures halt a run: a step in which an I/O fault
\* occurs (the output file cannot be created, the prior file cannot be read,
\* a row cannot be appended, a request fails) leaves the scan running, a
\* running scan ends only by returning or by being killed, and it returns
\* only after the last endpoint of the catalog.
C22_OnlyConfigurationFailuresHalt ==
  [][/\ faults' # faults => pc' \in Running
     /\ pc \in Running => pc' \in Running \cup {"done", "idle"}
     /\ pc' = "done" => ep_idx' > Len(endpoints')]_vars

\* C23: at every progress report the completed count shown is at most the
\* total shown, 3 x endpointCount, also in a scan resumed on a ledger that is
\* not empty.
C23_ProgressWithinTotal ==
  progress # <<>> =>
    /\ progress[2] = 3 * Len(endpoints)
    /\ progress[1] <= progress[2]

====
